---- MODULE Spec2Model ----
(***************************************************************************)
(* Model of the OS Config agent's configuration package                    *)
(* (src/config/config.go): the metadata refresh SetConfig with its bounded *)
(* retry, the merge createConfigFromMetadata, the lock-guarded published   *)
(* configuration agentConfig and its accessors.                            *)
(*                                                                         *)
(* Go strings are TLA+ strings.  A string that the code splits or          *)
(* lower-cases is drawn from a small alphabet and the conversion is a      *)
(* table over that alphabet.  A *json.Number is a record                   *)
(* [isNil, num] where num is the number literal as text.                   *)
(***************************************************************************)
EXTENDS Integers, Sequences, FiniteSets, TLC

\* ------------------------------------------------------------------------
\* Bounds of the model
\* ------------------------------------------------------------------------
MaxCalls == 2
NumReaders == 2
NumCallers == 2
MaxTokenCalls == 3
MaxTicks == 3
MaxInstanceCalls == 2
MaxUpdates == 2

Readers == 1..NumReaders
Callers == 1..NumCallers

\* ------------------------------------------------------------------------
\* Program constants (config.go:43-62)
\* ------------------------------------------------------------------------
googetRepoFilePath == "C:/ProgramData/GooGet/repos/google_osconfig_managed.repo"
zypperRepoFilePath == "/etc/zypp/repos.d/google_osconfig_managed.repo"
yumRepoFilePath == "/etc/yum.repos.d/google_osconfig_managed.repo"
aptRepoFilePath == "/etc/apt/sources.list.d/google_osconfig_managed.list"
prodEndpoint == "osconfig.googleapis.com:443"
osInventoryEnabledDefault == FALSE
guestPoliciesEnabledDefault == FALSE
taskNotificationEnabledDefault == FALSE
debugEnabledDefault == FALSE
osConfigPollIntervalDefault == 10

\* The number of failed fetches already counted at which SetConfig gives up
\* (config.go:306, "if webErrorCount == 2").
LastRetryCountOffByOne == 3
LastRetryCount == 2

\* ------------------------------------------------------------------------
\* The config struct (config.go:75-80) and its zero value, which is what
\* "agentConfig = &config{}" (config.go:70) publishes at start-up.
\* ------------------------------------------------------------------------
ZeroConfig ==
    [ osInventoryEnabled      |-> FALSE,
      guestPoliciesEnabled    |-> FALSE,
      taskNotificationEnabled |-> FALSE,
      debugEnabled            |-> FALSE,
      svcEndpoint             |-> "",
      googetRepoFilePath      |-> "",
      zypperRepoFilePath      |-> "",
      yumRepoFilePath         |-> "",
      aptRepoFilePath         |-> "",
      numericProjectID        |-> 0,
      osConfigPollInterval    |-> 0,
      projectID               |-> "",
      instanceZone            |-> "",
      instanceName            |-> "",
      instanceID              |-> "" ]

\* ------------------------------------------------------------------------
\* json.Number and *json.Number
\* ------------------------------------------------------------------------
NilNumber == [isNil |-> TRUE, num |-> ""]
Number(s) == [isNil |-> FALSE, num |-> s]

\* json.Number.Int64 (strconv.ParseInt of the literal): the integer it
\* parses to, or an error for a literal that is not an integer.
Int64(num) ==
    CASE num = "0"   -> [err |-> FALSE, val |-> 0]
      [] num = "5"   -> [err |-> FALSE, val |-> 5]
      [] num = "15"  -> [err |-> FALSE, val |-> 15]
      [] num = "-3"  -> [err |-> FALSE, val |-> 0 - 3]
      [] OTHER       -> [err |-> TRUE,  val |-> 0]

\* ------------------------------------------------------------------------
\* metadataJSON, instanceJSON, projectJSON, attributesJSON
\* (config.go:111-142).  The zero value of each is what json.Unmarshal
\* leaves for keys the document does not carry.  The two feature-list
\* attributes and the disabled-features list are kept as the sequence of
\* their comma-separated pieces; the empty string is the empty sequence.
\* ------------------------------------------------------------------------
ZeroAttributes ==
    [ InventoryEnabledOld   |-> "",
      InventoryEnabled      |-> "",
      PreReleaseFeaturesOld |-> << >>,
      PreReleaseFeatures    |-> << >>,
      OSConfigEnabled       |-> "",
      DisabledFeatures      |-> << >>,
      DebugEnabledOld       |-> "",
      LogLevel              |-> "",
      OSConfigEndpointOld   |-> "",
      OSConfigEndpoint      |-> "",
      PollIntervalOld       |-> NilNumber,
      PollInterval          |-> NilNumber ]

ZeroInstance ==
    [Attributes |-> ZeroAttributes, Zone |-> "", Name |-> "", ID |-> NilNumber]

ZeroProject ==
    [Attributes |-> ZeroAttributes, ProjectID |-> "", NumericProjectID |-> 0]

ZeroMetadata == [Instance |-> ZeroInstance, Project |-> ZeroProject]

\* ------------------------------------------------------------------------
\* parseBool (config.go:102-109): strconv.ParseBool, an unparseable entry
\* counts as not enabled.
\* ------------------------------------------------------------------------
ParseBoolTrue == {"1", "t", "T", "TRUE", "true", "True"}
ParseBoolFalse == {"0", "f", "F", "FALSE", "false", "False"}

\* parseBool that counts an unparseable entry as enabled.
parseBoolBadIsTrue(s) == s \notin ParseBoolFalse

parseBool(s) == s \in ParseBoolTrue

\* ------------------------------------------------------------------------
\* parseFeatures (config.go:82-94)
\* ------------------------------------------------------------------------
\* strings.Split(features, ","): the empty string yields one empty piece.
Split(features) == IF features = << >> THEN << "" >> ELSE features

\* strings.ToLower(strings.TrimSpace(f)) over the alphabet of pieces.
ToLowerTrim(f) ==
    CASE f = "OSInventory"     -> "osinventory"
      [] f = " osinventory "   -> "osinventory"
      [] f = "GuestPolicies "  -> "guestpolicies"
      [] f = " Tasks"          -> "tasks"
      [] f = "OSPatch"         -> "ospatch"
      [] f = "OSPackage"       -> "ospackage"
      [] OTHER                 -> f

parseFeature(c, f, enabled) ==
    CASE f \in {"tasks", "ospatch"}            -> [c EXCEPT !.taskNotificationEnabled = enabled]
      [] f \in {"guestpolicies", "ospackage"}  -> [c EXCEPT !.guestPoliciesEnabled = enabled]
      [] f = "osinventory"                     -> [c EXCEPT !.osInventoryEnabled = enabled]
      [] OTHER                                 -> c

RECURSIVE parsePieces(_, _, _)
parsePieces(c, pieces, enabled) ==
    IF pieces = << >> THEN c
    ELSE parsePieces(parseFeature(c, ToLowerTrim(Head(pieces)), enabled),
                     Tail(pieces), enabled)

parseFeatures(c, features, enabled) == parsePieces(c, Split(features), enabled)

\* ------------------------------------------------------------------------
\* createConfigFromMetadata (config.go:144-279), one operator per block of
\* the function, applied in the order of the source.
\* ------------------------------------------------------------------------
\* newConfig with the identity fields left at their zero values.
newConfigForgetful(old) ==
    [ osInventoryEnabled      |-> osInventoryEnabledDefault,
      guestPoliciesEnabled    |-> guestPoliciesEnabledDefault,
      taskNotificationEnabled |-> taskNotificationEnabledDefault,
      debugEnabled            |-> debugEnabledDefault,
      svcEndpoint             |-> prodEndpoint,
      googetRepoFilePath      |-> googetRepoFilePath,
      zypperRepoFilePath      |-> zypperRepoFilePath,
      yumRepoFilePath         |-> yumRepoFilePath,
      aptRepoFilePath         |-> aptRepoFilePath,
      numericProjectID        |-> 0,
      osConfigPollInterval    |-> osConfigPollIntervalDefault,
      projectID               |-> "",
      instanceZone            |-> "",
      instanceName            |-> "",
      instanceID              |-> "" ]

\* config.go:146-164: the defaults, and the identity fields of the
\* configuration published so far.
newConfig(old) ==
    [ osInventoryEnabled      |-> osInventoryEnabledDefault,
      guestPoliciesEnabled    |-> guestPoliciesEnabledDefault,
      taskNotificationEnabled |-> taskNotificationEnabledDefault,
      debugEnabled            |-> debugEnabledDefault,
      svcEndpoint             |-> prodEndpoint,
      googetRepoFilePath      |-> googetRepoFilePath,
      zypperRepoFilePath      |-> zypperRepoFilePath,
      yumRepoFilePath         |-> yumRepoFilePath,
      aptRepoFilePath         |-> aptRepoFilePath,
      numericProjectID        |-> old.numericProjectID,
      osConfigPollInterval    |-> osConfigPollIntervalDefault,
      projectID               |-> old.projectID,
      instanceZone            |-> old.instanceZone,
      instanceName            |-> old.instanceName,
      instanceID              |-> old.instanceID ]

\* config.go:166-180: identity fields the document supplies.
setIdentity(c, md) ==
    [c EXCEPT
       !.projectID        = IF md.Project.ProjectID # "" THEN md.Project.ProjectID ELSE @,
       !.numericProjectID = IF md.Project.NumericProjectID # 0
                            THEN md.Project.NumericProjectID ELSE @,
       !.instanceZone     = IF md.Instance.Zone # "" THEN md.Instance.Zone ELSE @,
       !.instanceName     = IF md.Instance.Name # "" THEN md.Instance.Name ELSE @,
       !.instanceID       = IF ~md.Instance.ID.isNil THEN md.Instance.ID.num ELSE @]

\* The inventory switch with the legacy name tested first.
inventoryEnabledLegacyFirst(c, a) ==
    CASE a.InventoryEnabledOld # "" ->
             [c EXCEPT !.osInventoryEnabled = parseBool(a.InventoryEnabledOld)]
      [] a.InventoryEnabled # ""    ->
             [c EXCEPT !.osInventoryEnabled = parseBool(a.InventoryEnabled)]
      [] OTHER -> c

\* config.go:183-188 and 200-205: the inventory switch of one tier.
inventoryEnabled(c, a) ==
    CASE a.InventoryEnabled # ""    ->
             [c EXCEPT !.osInventoryEnabled = parseBool(a.InventoryEnabled)]
      [] a.InventoryEnabledOld # "" ->
             [c EXCEPT !.osInventoryEnabled = parseBool(a.InventoryEnabledOld)]
      [] OTHER -> c

\* config.go:192-197 and 209-214: the enable-osconfig master switch.
osConfigEnabled(c, a) ==
    IF a.OSConfigEnabled # ""
    THEN [c EXCEPT !.taskNotificationEnabled = parseBool(a.OSConfigEnabled),
                   !.guestPoliciesEnabled    = parseBool(a.OSConfigEnabled),
                   !.osInventoryEnabled      = parseBool(a.OSConfigEnabled)]
    ELSE c

\* The feature settings of one tier with the disabled-features list
\* applied before the master switch.
tierFeaturesDenyFirst(c, a) ==
    LET c1 == inventoryEnabled(c, a)
        c2 == parseFeatures(c1, a.PreReleaseFeaturesOld, TRUE)
        c3 == parseFeatures(c2, a.PreReleaseFeatures, TRUE)
        c4 == parseFeatures(c3, a.DisabledFeatures, FALSE)
    IN  osConfigEnabled(c4, a)

\* config.go:183-198 (project) and 200-215 (instance): all feature
\* settings of one tier.
tierFeatures(c, a) ==
    LET c1 == inventoryEnabled(c, a)
        c2 == parseFeatures(c1, a.PreReleaseFeaturesOld, TRUE)
        c3 == parseFeatures(c2, a.PreReleaseFeatures, TRUE)
        c4 == osConfigEnabled(c3, a)
    IN  parseFeatures(c4, a.DisabledFeatures, FALSE)

\* config.go:217-226: the project poll interval.
projectPollInterval(c, md) ==
    LET a == md.Project.Attributes IN
    CASE ~a.PollInterval.isNil ->
             IF ~Int64(a.PollInterval.num).err
             THEN [c EXCEPT !.osConfigPollInterval = Int64(a.PollInterval.num).val]
             ELSE c
      [] ~a.PollIntervalOld.isNil ->
             IF ~Int64(a.PollIntervalOld.num).err
             THEN [c EXCEPT !.osConfigPollInterval = Int64(a.PollIntervalOld.num).val]
             ELSE c
      [] OTHER -> c

\* config.go:233-234: the legacy branch of the instance poll interval
\* calls Int64 on PollInterval, which is nil in that branch: the call
\* dereferences a nil pointer and the goroutine panics.
instancePollIntervalPanics(md) ==
    LET a == md.Instance.Attributes IN
    a.PollInterval.isNil /\ ~a.PollIntervalOld.isNil

\* config.go:228-237: the instance poll interval (when it does not panic).
instancePollInterval(c, md) ==
    LET a == md.Instance.Attributes IN
    CASE ~a.PollInterval.isNil ->
             IF ~Int64(a.PollInterval.num).err
             THEN [c EXCEPT !.osConfigPollInterval = Int64(a.PollInterval.num).val]
             ELSE c
      [] ~a.PollIntervalOld.isNil ->
             \* reads PollInterval, not PollIntervalOld (config.go:234)
             IF ~Int64(a.PollInterval.num).err
             THEN [c EXCEPT !.osConfigPollInterval = Int64(a.PollInterval.num).val]
             ELSE c
      [] OTHER -> c

\* config.go:239-244: the legacy debug attribute; the project case comes
\* first in the switch.
debugEnabledOld(c, md) ==
    CASE md.Project.Attributes.DebugEnabledOld # "" ->
             [c EXCEPT !.debugEnabled = parseBool(md.Project.Attributes.DebugEnabledOld)]
      [] md.Instance.Attributes.DebugEnabledOld # "" ->
             [c EXCEPT !.debugEnabled = parseBool(md.Instance.Attributes.DebugEnabledOld)]
      [] OTHER -> c

\* strings.ToLower over the alphabet of log levels.
ToLower(s) ==
    CASE s = "DEBUG" -> "debug"
      [] s = "Debug" -> "debug"
      [] s = "INFO"  -> "info"
      [] s = "Info"  -> "info"
      [] OTHER       -> s

\* config.go:246-251 and 253-258: the log level of one tier.
logLevel(c, a) ==
    CASE ToLower(a.LogLevel) = "debug" -> [c EXCEPT !.debugEnabled = TRUE]
      [] ToLower(a.LogLevel) = "info"  -> [c EXCEPT !.debugEnabled = FALSE]
      [] OTHER -> c

\* The -debug flag left out of the merge.
debugFlagIgnored(c, debugF) == c

\* config.go:260-263: the -debug flag.
debugFlag(c, debugF) == IF debugF THEN [c EXCEPT !.debugEnabled = TRUE] ELSE c

\* The service endpoint with the project attributes tested before the
\* instance attributes.
svcEndpointProjectFirst(c, md, endpointF) ==
    CASE endpointF # prodEndpoint ->
             [c EXCEPT !.svcEndpoint = endpointF]
      [] md.Project.Attributes.OSConfigEndpoint # "" ->
             [c EXCEPT !.svcEndpoint = md.Project.Attributes.OSConfigEndpoint]
      [] md.Project.Attributes.OSConfigEndpointOld # "" ->
             [c EXCEPT !.svcEndpoint = md.Project.Attributes.OSConfigEndpointOld]
      [] md.Instance.Attributes.OSConfigEndpoint # "" ->
             [c EXCEPT !.svcEndpoint = md.Instance.Attributes.OSConfigEndpoint]
      [] md.Instance.Attributes.OSConfigEndpointOld # "" ->
             [c EXCEPT !.svcEndpoint = md.Instance.Attributes.OSConfigEndpointOld]
      [] OTHER -> c

\* config.go:265-276: the service endpoint.
svcEndpoint(c, md, endpointF) ==
    CASE endpointF # prodEndpoint ->
             [c EXCEPT !.svcEndpoint = endpointF]
      [] md.Instance.Attributes.OSConfigEndpoint # "" ->
             [c EXCEPT !.svcEndpoint = md.Instance.Attributes.OSConfigEndpoint]
      [] md.Instance.Attributes.OSConfigEndpointOld # "" ->
             [c EXCEPT !.svcEndpoint = md.Instance.Attributes.OSConfigEndpointOld]
      [] md.Project.Attributes.OSConfigEndpoint # "" ->
             [c EXCEPT !.svcEndpoint = md.Project.Attributes.OSConfigEndpoint]
      [] md.Project.Attributes.OSConfigEndpointOld # "" ->
             [c EXCEPT !.svcEndpoint = md.Project.Attributes.OSConfigEndpointOld]
      [] OTHER -> c

\* The result of a call: the configuration returned, or a panic.
Returned(c) == [panic |-> FALSE, c |-> c]
Panicked == [panic |-> TRUE, c |-> ZeroConfig]

\* config.go:144-279.  old is the value getAgentConfig() returns at
\* config.go:145, debugF and endpointF are the flags *debug and *endpoint.
createConfigFromMetadata(md, old, debugF, endpointF) ==
    LET c0 == newConfig(old)
        c1 == setIdentity(c0, md)
        c2 == tierFeatures(c1, md.Project.Attributes)
        c3 == tierFeatures(c2, md.Instance.Attributes)
        c4 == projectPollInterval(c3, md)
        c5 == instancePollInterval(c4, md)
        c6 == debugEnabledOld(c5, md)
        c7 == logLevel(c6, md.Project.Attributes)
        c8 == logLevel(c7, md.Instance.Attributes)
        c9 == debugFlag(c8, debugF)
    IN  IF instancePollIntervalPanics(md)
        THEN Panicked
        ELSE Returned(svcEndpoint(c9, md, endpointF))

\* ------------------------------------------------------------------------
\* The metadata server's answers.  metadata.Get returns the body and a nil
\* error, or the empty string and a transport error (config.go:300).
\* ------------------------------------------------------------------------
nil == "nil"
DNSError == "url.Error{net.DNSError}"
OpError == "url.Error{net.OpError}"
OtherError == "metadata: unexpected error"
TransportErrors == {DNSError, OpError, OtherError}

DNSMessage == "DNS error when requesting metadata, check DNS settings and ensure metadata.google.internal is setup in your hosts file"
NetworkMessage == "network error when requesting metadata, make sure your instance has an active network and can reach the metadata server"

\* formatMetadataError (config.go:281-291)
formatMetadataError(err) ==
    CASE err = DNSError -> DNSMessage
      [] err = OpError  -> NetworkMessage
      [] OTHER          -> err

\* The documents the metadata server serves in the refresh model.
DocFull ==
    [ Instance |-> [ZeroInstance EXCEPT !.Zone = "projects/p1/zones/z1",
                                        !.Name = "n1",
                                        !.ID = Number("5")],
      Project  |-> [ZeroProject EXCEPT !.ProjectID = "p1",
                                       !.NumericProjectID = 1,
                                       !.Attributes.OSConfigEnabled = "true",
                                       !.Attributes.PollInterval = Number("5")] ]

DocBare ==
    [ZeroMetadata EXCEPT !.Instance.Attributes.PollInterval = Number("15"),
                         !.Instance.Attributes.LogLevel = "DEBUG"]

DocMoved ==
    [ZeroMetadata EXCEPT !.Instance.Zone = "projects/p1/zones/z2",
                         !.Instance.Name = "n2",
                         !.Instance.Attributes.DisabledFeatures = << "OSInventory" >>,
                         !.Project.Attributes.OSConfigEnabled = "true",
                         !.Project.Attributes.PollInterval = Number("0"),
                         !.Project.Attributes.OSConfigEndpointOld = "staging.example:443"]

DocLegacyPoll ==
    [ZeroMetadata EXCEPT !.Instance.Name = "n3",
                         !.Instance.Attributes.PollIntervalOld = Number("15")]

ServedDocs == {DocFull, DocBare, DocMoved, DocLegacyPoll}

\* A response body: a JSON document, text that is not JSON, or the empty
\* string.
JSONBody(d) == [kind |-> "json", doc |-> d]
GarbageBody == [kind |-> "garbage", doc |-> ZeroMetadata]
EmptyBody == [kind |-> "empty", doc |-> ZeroMetadata]
Bodies == {JSONBody(d) : d \in ServedDocs} \cup {GarbageBody}

UnexpectedEnd == "unexpected end of JSON input"
InvalidCharacter == "invalid character looking for beginning of value"

\* Unmarshal that reports no error for text that is not JSON.
UnmarshalLenient(body) ==
    CASE body.kind = "json"    -> [err |-> nil, metadata |-> body.doc]
      [] body.kind = "garbage" -> [err |-> nil, metadata |-> ZeroMetadata]
      [] OTHER                 -> [err |-> UnexpectedEnd, metadata |-> ZeroMetadata]

\* json.Unmarshal([]byte(md), &metadata) (config.go:320)
Unmarshal(body) ==
    CASE body.kind = "json"    -> [err |-> nil, metadata |-> body.doc]
      [] body.kind = "garbage" -> [err |-> InvalidCharacter, metadata |-> ZeroMetadata]
      [] OTHER                 -> [err |-> UnexpectedEnd, metadata |-> ZeroMetadata]

Endpoints == {prodEndpoint, "custom.example:443"}

\* The flag settings of the processes of the refresh model: no flag given,
\* and both -debug and -endpoint given (config.go:66-67).
FlagSettings ==
    { [debug |-> FALSE, endpoint |-> prodEndpoint],
      [debug |-> TRUE,  endpoint |-> "custom.example:443"] }

\* ------------------------------------------------------------------------
\* State
\* ------------------------------------------------------------------------
VARIABLES
    agentConfig,     \* *agentConfig, the published configuration
    agentConfigMx,   \* the RWMutex: [readers, writer]
    debug,           \* *debug
    endpoint,        \* *endpoint
    pc,              \* where the SetConfig goroutine is
    md,              \* SetConfig's md
    webError,        \* SetConfig's webError
    webErrorCount,   \* SetConfig's webErrorCount
    ticker,          \* a tick is buffered in ticker.C
    ctxDone,         \* ctx.Done() is closed
    metadata,        \* SetConfig's decoded metadata
    new,             \* SetConfig's new
    ret,             \* the error the last SetConfig call returned
    calls,           \* SetConfig calls started
    outcomes,        \* history: the outcome of each fetch of this call
    lastErr,         \* history: the transport error of the last failed fetch
    waits,           \* history: times this call reached the select
    before,          \* history: agentConfig when this call started
    cancelledInWait, \* history: this call was blocked in the select when ctx was cancelled
    published,       \* history: every configuration published so far
    rpc,             \* where each reader is in getAgentConfig
    got,             \* the copy getAgentConfig is returning to each reader
    mMd,             \* merge harness: the document
    mOld,            \* merge harness: the previous configuration
    mOut             \* merge harness: the result

refreshVars == << pc, md, webError, webErrorCount, ticker, ctxDone, metadata,
                  new, ret, calls, outcomes, lastErr, waits, before, cancelledInWait >>
storeVars == << agentConfig, agentConfigMx, published >>
readerVars == << rpc, got >>
flagVars == << debug, endpoint >>
mergeVars == << mMd, mOld, mOut >>

\* The identity token cache (config.go:437-476)
VARIABLES
    identity,        \* the idToken: [raw, exp, locked]
    now,             \* time.Now(), in minutes
    tpc,             \* where each caller of IDToken is
    tres,            \* what IDToken returns to each caller: [tok, err]
    tseen,           \* history: the cache and the time each caller's check read
    tfetched,        \* history: the answers to the token fetches of each caller's call
    tcalls,          \* history: IDToken calls started
    fetchCount,      \* history: token fetches made so far
    firstFetch       \* history: the answer to the first token fetch

tokenVars == << identity, now, tpc, tres, tseen, tfetched, tcalls, fetchCount, firstFetch >>

\* A caller of Instance (config.go:407-410)
VARIABLES
    ipc,             \* where the caller of Instance is: [fn, at]
    izone,           \* what Zone() returned to Instance
    iname,           \* what Name() returned to Instance
    ires,            \* what Instance returned
    icalls           \* history: Instance calls started

instanceVars == << ipc, izone, iname, ires, icalls >>

\* GetWUAUpdates (src/ospatch/updates_windows.go:163-213) and its arguments
VARIABLES
    wSession,        \* what the update session answers: [err, updts]
    wClassFilter,    \* classFilter
    wKbExcludes,     \* kbExcludes
    wExclusive,      \* exclusive_patches
    wOut             \* what GetWUAUpdates returned: [called, res]

patchVars == << wSession, wClassFilter, wKbExcludes, wExclusive, wOut >>
vars == << refreshVars, storeVars, readerVars, flagVars, mergeVars, tokenVars, instanceVars, patchVars >>

NotApplied == [applied |-> FALSE, res |-> Panicked]

\* ------------------------------------------------------------------------
\* The identity token: what the metadata server answers and what jws.Decode
\* makes of it.  A token is [sig, serial, exp]: whether it decodes, which
\* fetch issued it and its expiry claim; the empty string is EmptyToken.
\* ------------------------------------------------------------------------
EmptyToken == [sig |-> "none", serial |-> 0, exp |-> 0]
SignedToken(n, e) == [sig |-> "ok", serial |-> n, exp |-> e]
MalformedToken(n) == [sig |-> "bad", serial |-> n, exp |-> 0]

\* *time.Time
NilTime == [isNil |-> TRUE, t |-> 0]
Time(t) == [isNil |-> FALSE, t |-> t]

\* The margin before expiry at which the token is requested again
\* (config.go:469, 10*time.Minute); also the step of the model's clock.
RefreshMargin == 10

\* Minutes a fresh token lives.
Lifetimes == {5, 30}

TokenFetchError == "error getting token from metadata"
TokenDecodeError == "jws: invalid token received"

\* jws.Decode (config.go:449)
JwsDecode(data) ==
    IF data.sig = "ok" THEN [err |-> nil, Exp |-> data.exp]
    ELSE [err |-> TokenDecodeError, Exp |-> 0]

\* What metadata.Get(IdentityTokenPath) can answer to fetch number n at
\* time t (config.go:444).
TokenAnswers(n, t) ==
    { [err |-> e, data |-> EmptyToken] : e \in {OpError} }
      \cup { [err |-> nil, data |-> MalformedToken(n)] }
      \cup { [err |-> nil, data |-> SignedToken(n, t + l)] : l \in Lifetimes }

NoAnswer == [err |-> "none", data |-> EmptyToken]
NothingSeen == [raw |-> EmptyToken, exp |-> NilTime, now |-> 0]

InitToken ==
    /\ identity = [raw |-> EmptyToken, exp |-> NilTime, locked |-> FALSE]
    /\ now = 0
    /\ tpc = [c \in Callers |-> "idle"]
    /\ tres = [c \in Callers |-> [tok |-> EmptyToken, err |-> nil]]
    /\ tseen = [c \in Callers |-> NothingSeen]
    /\ tfetched = [c \in Callers |-> << >>]
    /\ tcalls = 0
    /\ fetchCount = 0
    /\ firstFetch = NoAnswer

NotCalled == [called |-> FALSE, res |-> [err |-> "nil", coll |-> << >>]]

InitNoPatch ==
    /\ wSession = [err |-> "nil", updts |-> << >>]
    /\ wClassFilter = << >>
    /\ wKbExcludes = << >>
    /\ wExclusive = << >>
    /\ wOut = NotCalled

NoURI == << >>

InitInstance ==
    /\ ipc = [fn |-> "Zone", at |-> "idle"]
    /\ izone = ""
    /\ iname = ""
    /\ ires = NoURI
    /\ icalls = 0

InitStore ==
    /\ agentConfig = ZeroConfig
    /\ agentConfigMx = [readers |-> 0, writer |-> FALSE]
    /\ published = {ZeroConfig}

InitRefresh ==
    /\ pc = "idle"
    /\ md = EmptyBody
    /\ webError = nil
    /\ webErrorCount = 0
    /\ ticker = FALSE
    /\ ctxDone = FALSE
    /\ metadata = ZeroMetadata
    /\ new = ZeroConfig
    /\ ret = nil
    /\ calls = 0
    /\ outcomes = << >>
    /\ lastErr = nil
    /\ waits = 0
    /\ before = ZeroConfig
    /\ cancelledInWait = FALSE

InitReaders ==
    /\ rpc = [r \in Readers |-> "idle"]
    /\ got = [r \in Readers |-> ZeroConfig]

Init ==
    /\ InitStore
    /\ InitRefresh
    /\ InitReaders
    /\ InitToken
    /\ InitInstance
    /\ InitNoPatch
    /\ \E f \in FlagSettings : debug = f.debug /\ endpoint = f.endpoint
    /\ mMd = ZeroMetadata
    /\ mOld = ZeroConfig
    /\ mOut = NotApplied

\* ------------------------------------------------------------------------
\* sync.RWMutex (config.go:71)
\* ------------------------------------------------------------------------
CanRLock(mx) == ~mx.writer
CanLock(mx) == ~mx.writer /\ mx.readers = 0

\* ------------------------------------------------------------------------
\* SetConfig (config.go:294-330), one action per step of the goroutine
\* ------------------------------------------------------------------------
Running == pc \notin {"idle", "done", "panicked"}

\* config.go:294-298: a new call; the ticker is created with no tick yet.
SetConfigCall ==
    /\ pc \in {"idle", "done"}
    /\ calls < MaxCalls
    /\ calls' = calls + 1
    /\ pc' = "fetch"
    /\ md' = EmptyBody
    /\ webError' = nil
    /\ webErrorCount' = 0
    /\ ticker' = FALSE
    /\ outcomes' = << >>
    /\ lastErr' = nil
    /\ waits' = 0
    /\ before' = agentConfig
    /\ cancelledInWait' = FALSE
    /\ UNCHANGED << ctxDone, metadata, new, ret >>
    /\ UNCHANGED << storeVars, readerVars, flagVars, mergeVars, tokenVars, instanceVars, patchVars >>

\* config.go:300-303: the fetch succeeds with some body.
FetchOK ==
    /\ pc = "fetch"
    /\ \E body \in Bodies :
         /\ md' = body
         /\ outcomes' = Append(outcomes, body.kind)
    /\ webError' = nil
    /\ pc' = "unmarshal"
    /\ UNCHANGED << lastErr, webErrorCount, ticker, ctxDone, metadata, new, ret, calls, waits, before, cancelledInWait >>
    /\ UNCHANGED << storeVars, readerVars, flagVars, mergeVars, tokenVars, instanceVars, patchVars >>

\* config.go:300-310: the fetch fails with a transport error.
FetchFail ==
    /\ pc = "fetch"
    /\ \E err \in TransportErrors :
         /\ md' = EmptyBody
         /\ outcomes' = Append(outcomes, "transport")
         /\ lastErr' = err
         /\ IF webErrorCount = LastRetryCount
            THEN /\ webError' = formatMetadataError(err)
                 /\ webErrorCount' = webErrorCount
                 /\ pc' = "unmarshal"
            ELSE /\ webError' = err
                 /\ webErrorCount' = webErrorCount + 1
                 /\ pc' = "select"
    /\ UNCHANGED << ticker, ctxDone, metadata, new, ret, calls, waits, before, cancelledInWait >>
    /\ UNCHANGED << storeVars, readerVars, flagVars, mergeVars, tokenVars, instanceVars, patchVars >>

\* config.go:311-316: the select finds a buffered tick and continues.
SelectTick ==
    /\ pc = "select"
    /\ ticker
    /\ ticker' = FALSE
    /\ waits' = waits + 1
    /\ pc' = "fetch"
    /\ UNCHANGED << lastErr, md, webError, webErrorCount, ctxDone, metadata, new, ret, calls, outcomes, before, cancelledInWait >>
    /\ UNCHANGED << storeVars, readerVars, flagVars, mergeVars, tokenVars, instanceVars, patchVars >>

\* config.go:311-316: the select finds the context done.
SelectDone ==
    /\ pc = "select"
    /\ ctxDone
    /\ waits' = waits + 1
    /\ pc' = "ctxdone"
    /\ UNCHANGED << lastErr, md, webError, webErrorCount, ticker, ctxDone, metadata, new, ret, calls, outcomes, before, cancelledInWait >>
    /\ UNCHANGED << storeVars, readerVars, flagVars, mergeVars, tokenVars, instanceVars, patchVars >>

\* config.go:311-316: no case is ready, the goroutine blocks.
SelectBlock ==
    /\ pc = "select"
    /\ ~ticker
    /\ ~ctxDone
    /\ waits' = waits + 1
    /\ pc' = "parked"
    /\ UNCHANGED << lastErr, md, webError, webErrorCount, ticker, ctxDone, metadata, new, ret, calls, outcomes, before, cancelledInWait >>
    /\ UNCHANGED << storeVars, readerVars, flagVars, mergeVars, tokenVars, instanceVars, patchVars >>

\* config.go:298, 312: the ticker fires.  A goroutine blocked in the select
\* is woken with the tick; otherwise the tick is buffered (one at most).
Tick ==
    /\ Running
    /\ pc # "ctxdone"
    /\ IF pc = "parked"
       THEN pc' = "fetch" /\ ticker' = ticker
       ELSE ~ticker /\ ticker' = TRUE /\ pc' = pc
    /\ UNCHANGED << lastErr, md, webError, webErrorCount, ctxDone, metadata, new, ret, calls, outcomes, waits, before, cancelledInWait >>
    /\ UNCHANGED << storeVars, readerVars, flagVars, mergeVars, tokenVars, instanceVars, patchVars >>

\* config.go:314: the context is cancelled.  A goroutine blocked in the
\* select is woken with the Done case.
Cancel ==
    /\ pc # "panicked"
    /\ ~ctxDone
    /\ ctxDone' = TRUE
    /\ pc' = IF pc = "parked" THEN "ctxdone" ELSE pc
    /\ cancelledInWait' = (pc = "parked")
    /\ UNCHANGED << lastErr, md, webError, webErrorCount, ticker, metadata, new, ret, calls, outcomes, waits, before >>
    /\ UNCHANGED << storeVars, readerVars, flagVars, mergeVars, tokenVars, instanceVars, patchVars >>

\* The Done case returning webError instead of nil.
ReturnCancelledWebError ==
    /\ pc = "ctxdone"
    /\ ret' = webError
    /\ pc' = "done"
    /\ UNCHANGED << lastErr, md, webError, webErrorCount, ticker, ctxDone, metadata, new, calls, outcomes, waits, before, cancelledInWait >>
    /\ UNCHANGED << storeVars, readerVars, flagVars, mergeVars, tokenVars, instanceVars, patchVars >>

\* config.go:315: return nil.
ReturnCancelled ==
    /\ pc = "ctxdone"
    /\ ret' = nil
    /\ pc' = "done"
    /\ UNCHANGED << lastErr, md, webError, webErrorCount, ticker, ctxDone, metadata, new, calls, outcomes, waits, before, cancelledInWait >>
    /\ UNCHANGED << storeVars, readerVars, flagVars, mergeVars, tokenVars, instanceVars, patchVars >>

\* config.go:319-322: decode the body; a decode error is returned.
Decode ==
    /\ pc = "unmarshal"
    /\ IF Unmarshal(md).err # nil
       THEN /\ ret' = Unmarshal(md).err
            /\ pc' = "done"
            /\ metadata' = metadata
       ELSE /\ metadata' = Unmarshal(md).metadata
            /\ pc' = "create"
            /\ ret' = ret
    /\ UNCHANGED << lastErr, md, webError, webErrorCount, ticker, ctxDone, new, calls, outcomes, waits, before, cancelledInWait >>
    /\ UNCHANGED << storeVars, readerVars, flagVars, mergeVars, tokenVars, instanceVars, patchVars >>

\* config.go:324 with 145: merge against the published configuration.  A
\* panic in createConfigFromMetadata ends the process.
Create ==
    /\ pc = "create"
    /\ CanRLock(agentConfigMx)
    /\ LET r == createConfigFromMetadata(metadata, agentConfig, debug, endpoint) IN
         IF r.panic
         THEN pc' = "panicked" /\ new' = new
         ELSE pc' = "lock" /\ new' = r.c
    /\ UNCHANGED << lastErr, md, webError, webErrorCount, ticker, ctxDone, metadata, ret, calls, outcomes, waits, before, cancelledInWait >>
    /\ UNCHANGED << storeVars, readerVars, flagVars, mergeVars, tokenVars, instanceVars, patchVars >>

\* config.go:325
Lock ==
    /\ pc = "lock"
    /\ CanLock(agentConfigMx)
    /\ agentConfigMx' = [agentConfigMx EXCEPT !.writer = TRUE]
    /\ pc' = "store"
    /\ UNCHANGED << lastErr, md, webError, webErrorCount, ticker, ctxDone, metadata, new, ret, calls, outcomes, waits, before, cancelledInWait >>
    /\ UNCHANGED << agentConfig, published, readerVars, flagVars, mergeVars, tokenVars, instanceVars, patchVars >>

\* An update in place that copies the feature flags only.
ReplaceFlagsInPlace(cur, n) ==
    [cur EXCEPT !.osInventoryEnabled = n.osInventoryEnabled,
                !.guestPoliciesEnabled = n.guestPoliciesEnabled,
                !.taskNotificationEnabled = n.taskNotificationEnabled]

\* config.go:326: what "agentConfig = new" leaves published.
Replace(cur, n) == n

\* config.go:326
Store ==
    /\ pc = "store"
    /\ agentConfig' = Replace(agentConfig, new)
    /\ published' = published \cup {new}
    /\ pc' = "unlock"
    /\ UNCHANGED << lastErr, md, webError, webErrorCount, ticker, ctxDone, metadata, new, ret, calls, outcomes, waits, before, cancelledInWait >>
    /\ UNCHANGED << agentConfigMx, readerVars, flagVars, mergeVars, tokenVars, instanceVars, patchVars >>

\* config.go:327-329: unlock and return webError.
UnlockReturn ==
    /\ pc = "unlock"
    /\ agentConfigMx' = [agentConfigMx EXCEPT !.writer = FALSE]
    /\ ret' = webError
    /\ pc' = "done"
    /\ UNCHANGED << lastErr, md, webError, webErrorCount, ticker, ctxDone, metadata, new, calls, outcomes, waits, before, cancelledInWait >>
    /\ UNCHANGED << agentConfig, published, readerVars, flagVars, mergeVars, tokenVars, instanceVars, patchVars >>

\* ------------------------------------------------------------------------
\* getAgentConfig (config.go:96-100), called by a reader task
\* ------------------------------------------------------------------------
RLock(r) ==
    /\ pc # "panicked"
    /\ rpc[r] = "idle"
    /\ CanRLock(agentConfigMx)
    /\ agentConfigMx' = [agentConfigMx EXCEPT !.readers = @ + 1]
    /\ rpc' = [rpc EXCEPT ![r] = "rlocked"]
    /\ UNCHANGED << got, agentConfig, published, refreshVars, flagVars, mergeVars, tokenVars, instanceVars, patchVars >>

Copy(r) ==
    /\ pc # "panicked"
    /\ rpc[r] = "rlocked"
    /\ got' = [got EXCEPT ![r] = agentConfig]
    /\ rpc' = [rpc EXCEPT ![r] = "copied"]
    /\ UNCHANGED << storeVars, refreshVars, flagVars, mergeVars, tokenVars, instanceVars, patchVars >>

RUnlock(r) ==
    /\ pc # "panicked"
    /\ rpc[r] = "copied"
    /\ agentConfigMx' = [agentConfigMx EXCEPT !.readers = @ - 1]
    /\ rpc' = [rpc EXCEPT ![r] = "idle"]
    /\ got' = [got EXCEPT ![r] = ZeroConfig]
    /\ UNCHANGED << agentConfig, published, refreshVars, flagVars, mergeVars, tokenVars, instanceVars, patchVars >>

Next ==
    \/ SetConfigCall
    \/ FetchOK
    \/ FetchFail
    \/ SelectTick
    \/ SelectDone
    \/ SelectBlock
    \/ Tick
    \/ Cancel
    \/ ReturnCancelled
    \/ Decode
    \/ Create
    \/ Lock
    \/ Store
    \/ UnlockReturn
    \/ \E r \in Readers : RLock(r)
    \/ \E r \in Readers : Copy(r)
    \/ \E r \in Readers : RUnlock(r)

Spec == Init /\ [][Next]_vars

\* ------------------------------------------------------------------------
\* The merge on its own: createConfigFromMetadata applied once to a
\* document, a previously published configuration and a flag setting.
\* ------------------------------------------------------------------------
NumberLiterals == {"0", "5", "15", "1.5"}
MaybeNumber == {NilNumber} \cup {Number(n) : n \in NumberLiterals}

\* Documents that differ in the four poll-interval attributes.
PollDocs ==
    { [ZeroMetadata EXCEPT !.Project.Attributes.PollInterval = pc1,
                           !.Project.Attributes.PollIntervalOld = pl,
                           !.Instance.Attributes.PollInterval = ic,
                           !.Instance.Attributes.PollIntervalOld = il] :
        pc1 \in MaybeNumber, pl \in MaybeNumber,
        ic \in MaybeNumber, il \in MaybeNumber }

\* Documents that differ in the identity fields they carry.
IdentityDocs ==
    { [ZeroMetadata EXCEPT !.Instance.Zone = z,
                           !.Instance.Name = n,
                           !.Instance.ID = i,
                           !.Project.ProjectID = p,
                           !.Project.NumericProjectID = np] :
        z \in {"", "projects/p2/zones/z9"}, n \in {"", "n9"},
        i \in {NilNumber, Number("15")}, p \in {"", "p2"}, np \in {0, 2} }

\* The texts a boolean attribute takes: absent, true, false, not a boolean.
BoolTexts == {"", "true", "false", "bogus"}

\* Documents that differ in the four inventory attributes.
InventoryDocs ==
    { [ZeroMetadata EXCEPT !.Project.Attributes.InventoryEnabled = pcur,
                           !.Project.Attributes.InventoryEnabledOld = pold,
                           !.Instance.Attributes.InventoryEnabled = icur,
                           !.Instance.Attributes.InventoryEnabledOld = iold] :
        pcur \in BoolTexts, pold \in BoolTexts,
        icur \in BoolTexts, iold \in BoolTexts }

\* Documents that differ in the legacy debug attribute and the log level.
LogLevelTexts == {"", "DEBUG", "info", "warn"}

DebugDocs ==
    { [ZeroMetadata EXCEPT !.Project.Attributes.DebugEnabledOld = pd,
                           !.Instance.Attributes.DebugEnabledOld = id,
                           !.Project.Attributes.LogLevel = pl,
                           !.Instance.Attributes.LogLevel = il] :
        pd \in BoolTexts, id \in BoolTexts,
        pl \in LogLevelTexts, il \in LogLevelTexts }

\* Documents that differ in the four endpoint attributes.
EndpointDocs ==
    { [ZeroMetadata EXCEPT !.Instance.Attributes.OSConfigEndpoint = icur,
                           !.Instance.Attributes.OSConfigEndpointOld = iold,
                           !.Project.Attributes.OSConfigEndpoint = pcur,
                           !.Project.Attributes.OSConfigEndpointOld = pold] :
        icur \in {"", "ic.example:443"}, iold \in {"", "il.example:443"},
        pcur \in {"", "pc.example:443"}, pold \in {"", "pl.example:443"} }

\* Documents that differ in the master switch, the feature lists and the
\* disabled-features lists.
FeatureDocs ==
    { [ZeroMetadata EXCEPT !.Project.Attributes.OSConfigEnabled = pe,
                           !.Instance.Attributes.OSConfigEnabled = ie,
                           !.Instance.Attributes.DisabledFeatures = idis,
                           !.Project.Attributes.DisabledFeatures = pdis,
                           !.Instance.Attributes.PreReleaseFeatures = ipre,
                           !.Project.Attributes.PreReleaseFeaturesOld = ppre,
                           !.Instance.Attributes.InventoryEnabled = iinv] :
        pe \in BoolTexts, ie \in BoolTexts,
        idis \in { << >>, << "OSInventory" >>, << "GuestPolicies ", " Tasks" >>,
                   << "unknown", "OSPatch" >> },
        pdis \in { << >>, << "OSPackage" >> },
        ipre \in { << >>, << " osinventory ", "OSPackage" >> },
        ppre \in { << >>, << " Tasks" >> },
        iinv \in {"", "true"} }

MergeDocs ==
    PollDocs \cup IdentityDocs \cup ServedDocs \cup InventoryDocs \cup DebugDocs
        \cup EndpointDocs \cup FeatureDocs

InitMerge ==
    /\ InitStore
    /\ InitRefresh
    /\ InitReaders
    /\ InitToken
    /\ InitInstance
    /\ InitNoPatch
    /\ debug \in BOOLEAN
    /\ endpoint \in Endpoints
    /\ mMd \in MergeDocs
    /\ mOld \in {ZeroConfig,
                 createConfigFromMetadata(DocFull, ZeroConfig, debug, endpoint).c}
    /\ mOut = NotApplied

MergeApply ==
    /\ ~mOut.applied
    /\ mOut' = [applied |-> TRUE,
                res |-> createConfigFromMetadata(mMd, mOld, debug, endpoint)]
    /\ UNCHANGED << mMd, mOld, refreshVars, storeVars, readerVars, flagVars, tokenVars, instanceVars, patchVars >>

NextMerge == MergeApply

SpecMerge == InitMerge /\ [][NextMerge]_vars

\* ------------------------------------------------------------------------
\* IDToken (config.go:463-476) and idToken.get (config.go:443-459), one
\* action per step of a caller
\* ------------------------------------------------------------------------
\* sync.Mutex.Lock on identity (config.go:465) with the lock never refused.
CanLockIdentityAlways(t) == TRUE

\* sync.Mutex.Lock on identity (config.go:465)
CanLockIdentity(t) == ~t.locked

\* The expiry test without the margin.
NeedsRefreshAtExpiry(exp, t) == exp.isNil \/ t > exp.t

\* config.go:469: identity.exp == nil ||
\* time.Now().After(identity.exp.Add(-10*time.Minute))
NeedsRefresh(exp, t) == exp.isNil \/ t > exp.t - RefreshMargin

\* idToken.get storing the raw token before it is decoded.
getStoresBeforeDecode(t, answer) ==
    IF answer.err # nil
    THEN [err |-> TokenFetchError, raw |-> t.raw, exp |-> t.exp]
    ELSE IF JwsDecode(answer.data).err # nil
    THEN [err |-> JwsDecode(answer.data).err, raw |-> answer.data, exp |-> t.exp]
    ELSE [err |-> nil, raw |-> answer.data, exp |-> Time(JwsDecode(answer.data).Exp)]

\* idToken.get (config.go:443-459): the error it returns and the raw token
\* and expiry it leaves in the cache.
get(t, answer) ==
    IF answer.err # nil
    THEN [err |-> TokenFetchError, raw |-> t.raw, exp |-> t.exp]
    ELSE IF JwsDecode(answer.data).err # nil
    THEN [err |-> JwsDecode(answer.data).err, raw |-> t.raw, exp |-> t.exp]
    ELSE [err |-> nil, raw |-> answer.data, exp |-> Time(JwsDecode(answer.data).Exp)]

othersUnchanged == UNCHANGED << refreshVars, storeVars, readerVars, flagVars, mergeVars, instanceVars, patchVars >>

\* config.go:464: a caller invokes IDToken.
IDTokenCall(c) ==
    /\ tpc[c] \in {"idle", "done"}
    /\ tcalls < MaxTokenCalls
    /\ tcalls' = tcalls + 1
    /\ tpc' = [tpc EXCEPT ![c] = "lock"]
    /\ tfetched' = [tfetched EXCEPT ![c] = << >>]
    /\ tseen' = [tseen EXCEPT ![c] = NothingSeen]
    /\ UNCHANGED << identity, now, tres, fetchCount, firstFetch >>
    /\ othersUnchanged

\* config.go:465: identity.Lock()
IDTokenLock(c) ==
    /\ tpc[c] = "lock"
    /\ CanLockIdentity(identity)
    /\ identity' = [identity EXCEPT !.locked = TRUE]
    /\ tpc' = [tpc EXCEPT ![c] = "check"]
    /\ UNCHANGED << now, tres, tseen, tfetched, tcalls, fetchCount, firstFetch >>
    /\ othersUnchanged

\* config.go:469, 475: the expiry test; a token that is still good is the
\* result.
IDTokenCheck(c) ==
    /\ tpc[c] = "check"
    /\ tseen' = [tseen EXCEPT ![c] = [raw |-> identity.raw, exp |-> identity.exp, now |-> now]]
    /\ IF NeedsRefresh(identity.exp, now)
       THEN /\ tpc' = [tpc EXCEPT ![c] = "get"]
            /\ tres' = tres
       ELSE /\ tpc' = [tpc EXCEPT ![c] = "return"]
            /\ tres' = [tres EXCEPT ![c] = [tok |-> identity.raw, err |-> nil]]
    /\ UNCHANGED << identity, now, tfetched, tcalls, fetchCount, firstFetch >>
    /\ othersUnchanged

\* config.go:470-475 with 443-459: fetch and decode a token; on an error
\* the result is the empty string and the error.
IDTokenGet(c) ==
    /\ tpc[c] = "get"
    /\ \E answer \in TokenAnswers(fetchCount + 1, now) :
         LET r == get(identity, answer) IN
         /\ identity' = [identity EXCEPT !.raw = r.raw, !.exp = r.exp]
         /\ tres' = [tres EXCEPT ![c] =
                        IF r.err # nil THEN [tok |-> EmptyToken, err |-> r.err]
                        ELSE [tok |-> r.raw, err |-> nil]]
         /\ firstFetch' = IF fetchCount = 0 THEN answer ELSE firstFetch
         /\ tfetched' = [tfetched EXCEPT ![c] = Append(@, answer)]
    /\ fetchCount' = fetchCount + 1
    /\ tpc' = [tpc EXCEPT ![c] = "return"]
    /\ UNCHANGED << now, tseen, tcalls >>
    /\ othersUnchanged

\* config.go:466: the deferred identity.Unlock(), and the return.
IDTokenReturn(c) ==
    /\ tpc[c] = "return"
    /\ identity' = [identity EXCEPT !.locked = FALSE]
    /\ tpc' = [tpc EXCEPT ![c] = "done"]
    /\ UNCHANGED << now, tres, tseen, tfetched, tcalls, fetchCount, firstFetch >>
    /\ othersUnchanged

\* Time passes (time.Now at config.go:469 reads it).
ClockTick ==
    /\ now < MaxTicks * RefreshMargin
    /\ now' = now + RefreshMargin
    /\ UNCHANGED << identity, tpc, tres, tseen, tfetched, tcalls, fetchCount, firstFetch >>
    /\ othersUnchanged

InitTokenCache ==
    /\ InitStore
    /\ InitRefresh
    /\ InitReaders
    /\ InitToken
    /\ InitInstance
    /\ InitNoPatch
    /\ debug = FALSE
    /\ endpoint = prodEndpoint
    /\ mMd = ZeroMetadata
    /\ mOld = ZeroConfig
    /\ mOut = NotApplied

NextToken ==
    \/ \E c \in Callers : IDTokenCall(c)
    \/ \E c \in Callers : IDTokenLock(c)
    \/ \E c \in Callers : IDTokenCheck(c)
    \/ \E c \in Callers : IDTokenGet(c)
    \/ \E c \in Callers : IDTokenReturn(c)
    \/ ClockTick

SpecToken == InitTokenCache /\ [][NextToken]_vars

\* ------------------------------------------------------------------------
\* Instance (config.go:407-410): Zone() and then Name(), each a call of
\* getAgentConfig (config.go:96-100) of its own, beside a running SetConfig
\* ------------------------------------------------------------------------
\* fmt.Sprintf("%s/instances/%s", zone, name), as the segments of the URI.
InstanceURI(zone, name) == << zone, "instances", name >>

\* The accessor whose turn it is reads the field it returns from the copy.
Field(fn, c) == IF fn = "Zone" THEN c.instanceZone ELSE c.instanceName

refreshUnchanged == UNCHANGED << refreshVars, flagVars, mergeVars, tokenVars, readerVars, patchVars >>

\* config.go:407-409: a call of Instance; Zone() is evaluated first.
InstanceCall ==
    /\ pc # "panicked"
    /\ ipc.at \in {"idle", "done"}
    /\ icalls < MaxInstanceCalls
    /\ icalls' = icalls + 1
    /\ ipc' = [fn |-> "Zone", at |-> "call"]
    /\ izone' = ""
    /\ iname' = ""
    /\ ires' = NoURI
    /\ UNCHANGED storeVars
    /\ refreshUnchanged

\* config.go:97: agentConfigMx.RLock() in the accessor's getAgentConfig
InstanceRLock ==
    /\ pc # "panicked"
    /\ ipc.at = "call"
    /\ CanRLock(agentConfigMx)
    /\ agentConfigMx' = [agentConfigMx EXCEPT !.readers = @ + 1]
    /\ ipc' = [ipc EXCEPT !.at = "rlocked"]
    /\ UNCHANGED << agentConfig, published, izone, iname, ires, icalls >>
    /\ refreshUnchanged

\* config.go:99 with 424 or 429: the copy, and the field of it
InstanceCopy ==
    /\ pc # "panicked"
    /\ ipc.at = "rlocked"
    /\ izone' = IF ipc.fn = "Zone" THEN Field("Zone", agentConfig) ELSE izone
    /\ iname' = IF ipc.fn = "Name" THEN Field("Name", agentConfig) ELSE iname
    /\ ipc' = [ipc EXCEPT !.at = "copied"]
    /\ UNCHANGED << storeVars, ires, icalls >>
    /\ refreshUnchanged

\* config.go:98: the deferred RUnlock; after Zone() comes Name(), after
\* Name() the URI is formatted and returned (config.go:409).
InstanceRUnlock ==
    /\ pc # "panicked"
    /\ ipc.at = "copied"
    /\ agentConfigMx' = [agentConfigMx EXCEPT !.readers = @ - 1]
    /\ IF ipc.fn = "Zone"
       THEN /\ ipc' = [fn |-> "Name", at |-> "call"]
            /\ ires' = ires
       ELSE /\ ipc' = [fn |-> "Name", at |-> "done"]
            /\ ires' = InstanceURI(izone, iname)
    /\ UNCHANGED << agentConfig, published, izone, iname, icalls >>
    /\ refreshUnchanged

InitInstanceCaller ==
    /\ InitStore
    /\ InitRefresh
    /\ InitReaders
    /\ InitToken
    /\ InitInstance
    /\ InitNoPatch
    /\ debug = FALSE
    /\ endpoint = prodEndpoint
    /\ mMd = ZeroMetadata
    /\ mOld = ZeroConfig
    /\ mOut = NotApplied

NextInstance ==
    \/ SetConfigCall
    \/ FetchOK
    \/ FetchFail
    \/ SelectTick
    \/ SelectDone
    \/ SelectBlock
    \/ Tick
    \/ Cancel
    \/ ReturnCancelled
    \/ Decode
    \/ Create
    \/ Lock
    \/ Store
    \/ UnlockReturn
    \/ InstanceCall
    \/ InstanceRLock
    \/ InstanceCopy
    \/ InstanceRUnlock

SpecInstance == InitInstanceCaller /\ [][NextInstance]_vars

\* ------------------------------------------------------------------------
\* The Windows update filter (src/ospatch/updates_windows.go): checkFilters
\* and GetWUAUpdates applied once to a session and three filter lists.
\* An update is [kbs, cats, titleErr]: its KBArticleIDs, the CategoryIDs of
\* its Categories, and whether reading its Title fails.
\* ------------------------------------------------------------------------
KBLists == { << >>, << "KB1" >>, << "KB2" >>, << "KB2", "KB1" >> }
CategoryLists == { << >>, << "c1" >>, << "c2" >> }

Updates ==
    { [kbs |-> k, cats |-> c, titleErr |-> FALSE] : k \in KBLists, c \in CategoryLists }
      \cup { [kbs |-> << "KB1" >>, cats |-> << >>, titleErr |-> TRUE] }

RECURSIVE UpdateLists(_)
UpdateLists(n) ==
    IF n = 0 THEN { << >> }
    ELSE UpdateLists(n - 1) \cup
         { Append(l, u) : l \in { x \in UpdateLists(n - 1) : Len(x) = n - 1 }, u \in Updates }

\* What session.GetWUAUpdateCollection answers (updates_windows.go:165).
Sessions ==
    { [err |-> nil, updts |-> l] : l \in UpdateLists(MaxUpdates) }
      \cup { [err |-> "GetWUAUpdateCollection error", updts |-> << >>] }

ClassFilters == { << >>, << "c1" >> }
KbExcludeLists == { << >>, << "KB1" >>, << "KB2" >> }
ExclusivePatchLists == { << >>, << "KB1" >>, << "KB1", "KB2" >> }

TitleError == "updt.GetProperty(Title)"

Elems(l) == { l[i] : i \in 1..Len(l) }

\* updates_windows.go:97-113: some KB article id of the update is one of
\* exclusive_patches.
exclusiveMatch(updt, exclusive_patches) ==
    \E i \in 1..Len(updt.kbs) : updt.kbs[i] \in Elems(exclusive_patches)

\* checkFilters (updates_windows.go:85-160): [ok, err]
checkFilters(updt, kbExcludes, classFilter, exclusive_patches) ==
    IF updt.titleErr THEN [ok |-> FALSE, err |-> TitleError]
    ELSE IF Len(exclusive_patches) > 0
    THEN [ok |-> exclusiveMatch(updt, exclusive_patches), err |-> nil]
    ELSE IF /\ Len(kbExcludes) > 0
            /\ \E i \in 1..Len(updt.kbs) : updt.kbs[i] \in Elems(kbExcludes)
    THEN [ok |-> FALSE, err |-> nil]
    ELSE IF Len(classFilter) = 0 THEN [ok |-> TRUE, err |-> nil]
    ELSE [ok |-> \E i \in 1..Len(updt.cats) : updt.cats[i] \in Elems(classFilter),
          err |-> nil]

\* The loop of GetWUAUpdates (updates_windows.go:193-210) from update i on,
\* newUpdts being what was added so far.
RECURSIVE filterFrom(_, _, _, _, _, _)
filterFrom(updts, i, newUpdts, classFilter, kbExcludes, exclusive_patches) ==
    IF i > Len(updts) THEN [err |-> nil, coll |-> newUpdts]
    ELSE LET r == checkFilters(updts[i], kbExcludes, classFilter, exclusive_patches) IN
         IF r.err # nil THEN [err |-> r.err, coll |-> << >>]
         ELSE filterFrom(updts, i + 1,
                         IF r.ok THEN Append(newUpdts, updts[i]) ELSE newUpdts,
                         classFilter, kbExcludes, exclusive_patches)

\* GetWUAUpdates (updates_windows.go:163-213): [err, coll]
GetWUAUpdates(session, classFilter, kbExcludes, exclusive_patches) ==
    IF session.err # nil THEN [err |-> session.err, coll |-> << >>]
    ELSE IF Len(classFilter) = 0 /\ Len(kbExcludes) = 0
    THEN [err |-> nil, coll |-> session.updts]
    ELSE filterFrom(session.updts, 1, << >>, classFilter, kbExcludes, exclusive_patches)

InitPatch ==
    /\ InitStore
    /\ InitRefresh
    /\ InitReaders
    /\ InitToken
    /\ InitInstance
    /\ debug = FALSE
    /\ endpoint = prodEndpoint
    /\ mMd = ZeroMetadata
    /\ mOld = ZeroConfig
    /\ mOut = NotApplied
    /\ wSession \in Sessions
    /\ wClassFilter \in ClassFilters
    /\ wKbExcludes \in KbExcludeLists
    /\ wExclusive \in ExclusivePatchLists
    /\ wOut = NotCalled

GetWUAUpdatesCall ==
    /\ ~wOut.called
    /\ wOut' = [called |-> TRUE,
                res |-> GetWUAUpdates(wSession, wClassFilter, wKbExcludes, wExclusive)]
    /\ UNCHANGED << wSession, wClassFilter, wKbExcludes, wExclusive >>
    /\ UNCHANGED << refreshVars, storeVars, readerVars, flagVars, mergeVars, tokenVars, instanceVars >>

NextPatch == GetWUAUpdatesCall

SpecPatch == InitPatch /\ [][NextPatch]_vars

\* ------------------------------------------------------------------------
\* Accessors (config.go:332-435): each returns one field of the value
\* getAgentConfig() returns.
\* ------------------------------------------------------------------------
SvcPollInterval == agentConfig.osConfigPollInterval
SvcEndpoint == agentConfig.svcEndpoint
ZypperRepoFilePath == agentConfig.zypperRepoFilePath
YumRepoFilePath == agentConfig.yumRepoFilePath
AptRepoFilePath == agentConfig.aptRepoFilePath
GooGetRepoFilePath == agentConfig.googetRepoFilePath
OSInventoryEnabled == agentConfig.osInventoryEnabled
GuestPoliciesEnabled == agentConfig.guestPoliciesEnabled
TaskNotificationEnabled == agentConfig.taskNotificationEnabled
Debug == debug \/ agentConfig.debugEnabled

\* ------------------------------------------------------------------------
\* Properties
\* ------------------------------------------------------------------------
Last(seq) == seq[Len(seq)]
AllTransport(seq) == \A i \in 1..Len(seq) : seq[i] = "transport"
Ended == pc \in {"done", "panicked"}

C2_ReturnsClassifiedError ==
    (pc = "done" /\ Len(outcomes) = 3 /\ AllTransport(outcomes))
        => ret = formatMetadataError(lastErr)

\* C3: when the context is cancelled while SetConfig is blocked in the
\* select between two fetches, SetConfig takes the Done case, fetches no
\* more, leaves the published configuration unchanged and returns nil.
C3_CancelInWaitReturnsNil ==
    [][ /\ (pc = "parked" /\ ~ctxDone /\ ctxDone') => pc' = "ctxdone"
        /\ pc = "ctxdone" =>
             /\ pc' \in {"ctxdone", "done"}
             /\ outcomes' = outcomes
             /\ agentConfig' = agentConfig
             /\ agentConfig = before
             /\ pc' = "done" => ret' = nil ]_vars

C3_Witness ==
    /\ pc = "done"
    /\ cancelledInWait
    /\ Len(outcomes) = 2
    /\ ret = nil
    /\ before # ZeroConfig
    /\ agentConfig = before

\* C4: a fetched body that cannot be decoded ends the call: it is the last
\* fetch, no wait follows it, the decode error is what SetConfig returns
\* and the published configuration is unchanged.
C4_DecodeErrorReturnedAtOnce ==
    /\ \A i \in 1..Len(outcomes) : outcomes[i] = "garbage" => i = Len(outcomes)
    /\ (Len(outcomes) > 0 /\ Last(outcomes) = "garbage") =>
          /\ pc \in {"unmarshal", "done"}
          /\ waits = Len(outcomes) - 1
          /\ agentConfig = before
          /\ pc = "done" => ret = InvalidCharacter

C4_Witness ==
    /\ pc = "done"
    /\ Len(outcomes) = 2
    /\ Last(outcomes) = "garbage"
    /\ ret = InvalidCharacter
    /\ before # ZeroConfig

\* C5: a call whose last fetch returned a well-formed document ends by
\* returning nil with the published configuration replaced by the merge of
\* that document and the configuration published before the call.
C5_SuccessPublishesAndReturnsNil ==
    (Ended /\ Len(outcomes) > 0 /\ Last(outcomes) = "json") =>
        /\ pc = "done"
        /\ ret = nil
        /\ agentConfig = createConfigFromMetadata(md.doc, before, debug, endpoint).c

\* C6: every value getAgentConfig hands to a reader, and the published
\* value itself, is one of the configurations published so far (the initial
\* one or one a SetConfig call merged and stored), whole.
C6_ReadersSeeWholeSnapshots ==
    /\ agentConfig \in published
    /\ \A r \in Readers : got[r] \in published

C6_Witness ==
    \E r \in Readers :
        /\ rpc[r] = "copied"
        /\ pc = "lock"
        /\ got[r] = agentConfig
        /\ got[r] # ZeroConfig
        /\ new # agentConfig

\* C7: while no SetConfig call has succeeded, the accessors return the
\* hard-coded defaults.
C7_DefaultsBeforeFirstSuccess ==
    published = {ZeroConfig} =>
        /\ SvcEndpoint = prodEndpoint
        /\ SvcPollInterval = osConfigPollIntervalDefault
        /\ ZypperRepoFilePath = zypperRepoFilePath
        /\ YumRepoFilePath = yumRepoFilePath
        /\ AptRepoFilePath = aptRepoFilePath
        /\ GooGetRepoFilePath = googetRepoFilePath
        /\ ~OSInventoryEnabled
        /\ ~GuestPoliciesEnabled
        /\ ~TaskNotificationEnabled

\* C8: an identity field of the published configuration, once non-empty
\* (non-zero), never becomes empty (zero) again; a store publishes the
\* document's value of the field when the document carries one and the
\* previously published value when it does not.
C8_IdentitySticky ==
    [][ /\ agentConfig.instanceZone # "" => agentConfig'.instanceZone # ""
        /\ agentConfig.instanceName # "" => agentConfig'.instanceName # ""
        /\ agentConfig.instanceID # "" => agentConfig'.instanceID # ""
        /\ agentConfig.projectID # "" => agentConfig'.projectID # ""
        /\ agentConfig.numericProjectID # 0 => agentConfig'.numericProjectID # 0
        /\ (pc = "store" /\ pc' = "unlock") =>
             /\ agentConfig'.instanceZone =
                  IF metadata.Instance.Zone # "" THEN metadata.Instance.Zone
                  ELSE agentConfig.instanceZone
             /\ agentConfig'.instanceName =
                  IF metadata.Instance.Name # "" THEN metadata.Instance.Name
                  ELSE agentConfig.instanceName
             /\ agentConfig'.instanceID =
                  IF ~metadata.Instance.ID.isNil THEN metadata.Instance.ID.num
                  ELSE agentConfig.instanceID
             /\ agentConfig'.projectID =
                  IF metadata.Project.ProjectID # "" THEN metadata.Project.ProjectID
                  ELSE agentConfig.projectID
             /\ agentConfig'.numericProjectID =
                  IF metadata.Project.NumericProjectID # 0
                  THEN metadata.Project.NumericProjectID
                  ELSE agentConfig.numericProjectID ]_vars

C8_Witness ==
    /\ pc = "done"
    /\ ret = nil
    /\ Last(outcomes) = "json"
    /\ metadata.Instance.Name = ""
    /\ metadata.Instance.ID.isNil
    /\ metadata.Project.NumericProjectID = 0
    /\ agentConfig # before
    /\ agentConfig.instanceName = "n1"
    /\ agentConfig.instanceID = "5"
    /\ agentConfig.numericProjectID = 1

\* C9: createConfigFromMetadata returns a configuration for every document,
\* previous configuration and flag setting; it never panics.
C9_MergeTotal == mOut.applied => ~mOut.res.panic

\* C10: the resolved poll interval is the instance value if the instance
\* carries one, else the project value if the project carries one, else 10;
\* the value of a tier is its osconfig-poll-interval if present, else its
\* os-config-poll-interval.  (Stated for documents whose poll-interval
\* attributes are integers.)
TierPoll(a) == IF ~a.PollInterval.isNil THEN a.PollInterval ELSE a.PollIntervalOld

ExpectedPoll(d) ==
    LET i == TierPoll(d.Instance.Attributes)
        p == TierPoll(d.Project.Attributes)
    IN  IF ~i.isNil THEN Int64(i.num).val
        ELSE IF ~p.isNil THEN Int64(p.num).val
        ELSE osConfigPollIntervalDefault

IntegerPolls(d) ==
    \A n \in { d.Instance.Attributes.PollInterval, d.Instance.Attributes.PollIntervalOld,
               d.Project.Attributes.PollInterval, d.Project.Attributes.PollIntervalOld } :
        n.isNil \/ ~Int64(n.num).err

C10_PollIntervalPrecedence ==
    (mOut.applied /\ IntegerPolls(mMd)) =>
        /\ ~mOut.res.panic
        /\ mOut.res.c.osConfigPollInterval = ExpectedPoll(mMd)

\* The configuration the merge harness resolved (when it did not panic).
Resolved == mOut.applied /\ ~mOut.res.panic
mCfg == mOut.res.c

\* C11: with a legacy debug attribute at both tiers, no log level and no
\* -debug flag, the resolved debug flag is the instance value.
C11_LegacyDebugInstanceWins ==
    ( /\ Resolved
      /\ ~debug
      /\ mMd.Project.Attributes.DebugEnabledOld # ""
      /\ mMd.Instance.Attributes.DebugEnabledOld # ""
      /\ mMd.Project.Attributes.LogLevel = ""
      /\ mMd.Instance.Attributes.LogLevel = "" )
    => mCfg.debugEnabled = parseBool(mMd.Instance.Attributes.DebugEnabledOld)

\* C12: the boolean attributes of a document, by tier and attribute.
BoolSlots ==
    {"Instance", "Project"} \X
    {"InventoryEnabled", "InventoryEnabledOld", "OSConfigEnabled", "DebugEnabledOld"}

Unparseable(s) == s # "" /\ s \notin (ParseBoolTrue \cup ParseBoolFalse)

WithSlot(d, slot, v) == [d EXCEPT ![slot[1]].Attributes[slot[2]] = v]

\* C12 (as claimed): a document with an unparseable boolean attribute
\* resolves to what the same document without that attribute resolves to.
C12_MalformedIsAbsent ==
    mOut.applied =>
        \A slot \in BoolSlots :
            Unparseable(mMd[slot[1]].Attributes[slot[2]]) =>
                mOut.res = createConfigFromMetadata(WithSlot(mMd, slot, ""),
                                                    mOld, debug, endpoint)

\* C12 (amended): a document with an unparseable boolean attribute resolves
\* to what the same document with that attribute set to "false" resolves to:
\* the attribute counts as present and not enabled.
C12_MalformedIsFalse ==
    mOut.applied =>
        \A slot \in BoolSlots :
            Unparseable(mMd[slot[1]].Attributes[slot[2]]) =>
                mOut.res = createConfigFromMetadata(WithSlot(mMd, slot, "false"),
                                                    mOld, debug, endpoint)

C12_Witness ==
    /\ Resolved
    /\ mMd.Instance.Attributes.InventoryEnabled = "bogus"
    /\ mMd.Instance.Attributes.InventoryEnabledOld = "true"
    /\ mMd.Project.Attributes.InventoryEnabled = "true"
    /\ ~mCfg.osInventoryEnabled

\* C13: the resolved endpoint is the -endpoint flag when it differs from the
\* production endpoint; otherwise the first non-empty of the instance
\* current-name, instance legacy-name, project current-name and project
\* legacy-name attributes; otherwise the production endpoint.
ExpectedEndpoint(d, endpointF) ==
    LET i == d.Instance.Attributes
        p == d.Project.Attributes
    IN  IF endpointF # prodEndpoint THEN endpointF
        ELSE IF i.OSConfigEndpoint # "" THEN i.OSConfigEndpoint
        ELSE IF i.OSConfigEndpointOld # "" THEN i.OSConfigEndpointOld
        ELSE IF p.OSConfigEndpoint # "" THEN p.OSConfigEndpoint
        ELSE IF p.OSConfigEndpointOld # "" THEN p.OSConfigEndpointOld
        ELSE prodEndpoint

C13_EndpointPrecedence ==
    Resolved => mCfg.svcEndpoint = ExpectedEndpoint(mMd, endpoint)

C13_Witness ==
    /\ Resolved
    /\ endpoint = prodEndpoint
    /\ mMd.Instance.Attributes.OSConfigEndpoint = ""
    /\ mMd.Instance.Attributes.OSConfigEndpointOld = "il.example:443"
    /\ mMd.Project.Attributes.OSConfigEndpoint = "pc.example:443"
    /\ mCfg.svcEndpoint = "il.example:443"

\* C14: with no master switch, feature list or disabled-features list at
\* either tier, the resolved inventory flag is the parsed value of the first
\* present of instance enable-os-inventory, instance os-inventory-enabled,
\* project enable-os-inventory, project os-inventory-enabled, else false.
NoSwitches(a) ==
    /\ a.OSConfigEnabled = ""
    /\ a.PreReleaseFeatures = << >>
    /\ a.PreReleaseFeaturesOld = << >>
    /\ a.DisabledFeatures = << >>

ExpectedInventory(d) ==
    LET i == d.Instance.Attributes
        p == d.Project.Attributes
    IN  IF i.InventoryEnabled # "" THEN parseBool(i.InventoryEnabled)
        ELSE IF i.InventoryEnabledOld # "" THEN parseBool(i.InventoryEnabledOld)
        ELSE IF p.InventoryEnabled # "" THEN parseBool(p.InventoryEnabled)
        ELSE IF p.InventoryEnabledOld # "" THEN parseBool(p.InventoryEnabledOld)
        ELSE FALSE

C14_InventoryPrecedence ==
    ( /\ Resolved
      /\ NoSwitches(mMd.Instance.Attributes)
      /\ NoSwitches(mMd.Project.Attributes) )
    => mCfg.osInventoryEnabled = ExpectedInventory(mMd)

C14_Witness ==
    /\ Resolved
    /\ mMd.Instance.Attributes.InventoryEnabled = "false"
    /\ mMd.Instance.Attributes.InventoryEnabledOld = "true"
    /\ mMd.Project.Attributes.InventoryEnabled = "true"
    /\ ~mCfg.osInventoryEnabled

\* C15: the features a disabled-features list names, and the flag of each
\* feature in a configuration.
Features == {"osinventory", "guestpolicies", "tasks"}

FeatureOf(f) ==
    CASE f \in {"tasks", "ospatch"}           -> "tasks"
      [] f \in {"guestpolicies", "ospackage"} -> "guestpolicies"
      [] f = "osinventory"                    -> "osinventory"
      [] OTHER                                -> "none"

Names(list, feature) ==
    \E i \in 1..Len(list) : FeatureOf(ToLowerTrim(list[i])) = feature

Flag(c, feature) ==
    CASE feature = "tasks"         -> c.taskNotificationEnabled
      [] feature = "guestpolicies" -> c.guestPoliciesEnabled
      [] OTHER                     -> c.osInventoryEnabled

NoFeatureSettings(a) ==
    NoSwitches(a) /\ a.InventoryEnabled = "" /\ a.InventoryEnabledOld = ""

\* C15: every feature the instance disabled-features list names is off;
\* every other feature has the instance enable-osconfig value when the
\* instance carries one; and when the instance carries no feature setting
\* at all the same holds of the project's list and master switch.
C15_MasterSwitchThenDenyList ==
    Resolved =>
        \A f \in Features :
            LET i == mMd.Instance.Attributes
                p == mMd.Project.Attributes
            IN  /\ Names(i.DisabledFeatures, f) => ~Flag(mCfg, f)
                /\ (~Names(i.DisabledFeatures, f) /\ i.OSConfigEnabled # "")
                      => Flag(mCfg, f) = parseBool(i.OSConfigEnabled)
                /\ NoFeatureSettings(i) =>
                      /\ Names(p.DisabledFeatures, f) => ~Flag(mCfg, f)
                      /\ (~Names(p.DisabledFeatures, f) /\ p.OSConfigEnabled # "")
                            => Flag(mCfg, f) = parseBool(p.OSConfigEnabled)

C15_Witness ==
    /\ Resolved
    /\ mMd.Project.Attributes.OSConfigEnabled = "true"
    /\ mMd.Instance.Attributes.OSConfigEnabled = "true"
    /\ mMd.Instance.Attributes.DisabledFeatures = << "OSInventory" >>
    /\ mMd.Instance.Attributes.InventoryEnabled = "true"
    /\ ~mCfg.osInventoryEnabled
    /\ mCfg.guestPoliciesEnabled
    /\ mCfg.taskNotificationEnabled

\* C16: with the -debug flag set the resolved debug flag is true for every
\* document, and so is Debug().
C16_DebugFlagWins ==
    /\ (Resolved /\ debug) => mCfg.debugEnabled
    /\ debug => Debug

C16_Witness ==
    /\ Resolved
    /\ debug
    /\ mMd.Instance.Attributes.LogLevel = "info"
    /\ mMd.Project.Attributes.DebugEnabledOld = "false"
    /\ mCfg.debugEnabled

\* C17: every configuration a SetConfig call published has a non-empty
\* service endpoint and a strictly positive poll interval.
C17_PublishedEndpointAndPollValid ==
    \A c \in published \ {ZeroConfig} :
        c.svcEndpoint # "" /\ c.osConfigPollInterval > 0

\* ------------------------------------------------------------------------
\* The identity token cache
\* ------------------------------------------------------------------------
Answered(c) == tpc[c] \in {"return", "done"}
Fetches(c) == Len(tfetched[c])

\* C18: a call of IDToken that finds no cached token makes exactly one
\* token fetch; one that finds the cached expiry more than 10 minutes ahead
\* makes no fetch and returns the cached token; one that finds the cached
\* expiry less than 10 minutes ahead, or past, makes exactly one fetch.
C18_RefreshCount ==
    \A c \in Callers :
        Answered(c) =>
            /\ tseen[c].exp.isNil => Fetches(c) = 1
            /\ (~tseen[c].exp.isNil /\ tseen[c].exp.t - tseen[c].now > RefreshMargin) =>
                   /\ Fetches(c) = 0
                   /\ tres[c] = [tok |-> tseen[c].raw, err |-> nil]
            /\ (~tseen[c].exp.isNil /\ tseen[c].exp.t - tseen[c].now < RefreshMargin) =>
                   Fetches(c) = 1

\* One caller was answered from a cache good for more than 10 minutes,
\* another refreshed a token that had less than 10 minutes left.
C18_Witness ==
    \E c, d \in Callers :
        /\ tpc[c] = "done" /\ tpc[d] = "done"
        /\ ~tseen[c].exp.isNil /\ tseen[c].exp.t - tseen[c].now > RefreshMargin
        /\ Fetches(c) = 0 /\ tres[c].tok = tseen[c].raw /\ tres[c].tok # EmptyToken
        /\ ~tseen[d].exp.isNil /\ tseen[d].exp.t - tseen[d].now < RefreshMargin
        /\ Fetches(d) = 1

\* C19: the check and the refresh of IDToken run under one exclusive lock:
\* at most one caller is between Lock and Unlock, and when the first fetch
\* on the empty cache answers a token that expires more than 10 minutes
\* ahead, that is the only fetch made and every caller answered gets that
\* token.
C19_OneFetchForAll ==
    /\ \A c, d \in Callers :
           (tpc[c] \in {"check", "get", "return"} /\ tpc[d] \in {"check", "get", "return"}) => c = d
    /\ (/\ firstFetch.err = nil
        /\ JwsDecode(firstFetch.data).err = nil
        /\ JwsDecode(firstFetch.data).Exp - now > RefreshMargin) =>
           /\ fetchCount = 1
           /\ \A c \in Callers :
                  Answered(c) => tres[c] = [tok |-> firstFetch.data, err |-> nil]

\* Every caller has called once and been answered with the one token
\* fetched, which is still good for more than 10 minutes.
C19_Witness ==
    /\ tcalls = NumCallers
    /\ fetchCount = 1
    /\ firstFetch.err = nil
    /\ JwsDecode(firstFetch.data).err = nil
    /\ JwsDecode(firstFetch.data).Exp - now > RefreshMargin
    /\ \A c \in Callers : tpc[c] = "done" /\ tres[c] = [tok |-> firstFetch.data, err |-> nil]

RefreshFailed(c) ==
    /\ Fetches(c) = 1
    /\ \/ tfetched[c][1].err # nil
       \/ JwsDecode(tfetched[c][1].data).err # nil

\* C20: when the refresh of a call fails, by a fetch error or by a token
\* that does not decode, IDToken returns an error and the empty string, and
\* the cached raw token and expiry are what the call found.
C20_FailedRefreshLeavesCache ==
    \A c \in Callers :
        /\ (Answered(c) /\ RefreshFailed(c)) =>
               /\ tres[c].err # nil
               /\ tres[c].tok = EmptyToken
        /\ (tpc[c] = "return" /\ RefreshFailed(c)) =>
               /\ identity.raw = tseen[c].raw
               /\ identity.exp = tseen[c].exp

\* A token that did not decode was refused while a token was cached, and
\* the cache still holds the older token.
C20_Witness ==
    \E c \in Callers :
        /\ tpc[c] = "return"
        /\ Fetches(c) = 1
        /\ tfetched[c][1].err = nil
        /\ JwsDecode(tfetched[c][1].data).err # nil
        /\ tres[c].err # nil
        /\ tseen[c].raw # EmptyToken
        /\ identity.raw = tseen[c].raw

\* ------------------------------------------------------------------------
\* Instance
\* ------------------------------------------------------------------------
\* C21: the zone and the name in what Instance returns are those of one
\* and the same published configuration, also when SetConfig replaces the
\* configuration while Instance runs.
C21_InstanceFromOneSnapshot ==
    ipc.at = "done" =>
        \E c \in published : ires = InstanceURI(c.instanceZone, c.instanceName)

\* ------------------------------------------------------------------------
\* The Windows update filter
\* ------------------------------------------------------------------------
HasExclusiveKB(u) == Elems(u.kbs) \cap Elems(wExclusive) # {}

\* C22: with exclusive_patches not empty, the collection GetWUAUpdates
\* returns holds exactly the candidate updates with a KB article id among
\* exclusive_patches, whatever classFilter and kbExcludes are.
C22_ExclusivePatchesOnly ==
    (wOut.called /\ wOut.res.err = nil /\ Len(wExclusive) > 0) =>
        wOut.res.coll = SelectSeq(wSession.updts, HasExclusiveKB)

====
